---- MODULE Spec2Model ----
(***************************************************************************)
(* A model of the tree-walking evaluator of src/src/main.rs.               *)
(*                                                                         *)
(* The evaluator is a recursive Rust function (eval / call_fn /            *)
(* print_value).  The model runs it as a machine with an explicit control  *)
(* component: `ctl` is the term being evaluated or the value being         *)
(* returned, `kont` is the chain of suspended Rust activations (what each  *)
(* one does with the value it is waiting for), `stack` is the CallStack    *)
(* (the Vec<Call> behind the Rc<RefCell<..>>), `out` is standard output.   *)
(* A panic! ends the run: the suspended activations are dropped and none   *)
(* of the statements that follow them is executed.                         *)
(***************************************************************************)
EXTENDS Integers, Sequences, FiniteSets, TLC

(***************************************************************************)
(* Bounds of the model.                                                    *)
(***************************************************************************)
\* Host recursion is bounded only by the host stack; the model lets the
\* CallStack hold at most MaxFrames frames and aborts the run beyond that.
MaxFrames == 8
\* Integer literals of the generated input programs range over 0..MaxInt.
MaxInt == 2
\* Calls of the two-parameter function are generated with 0..MaxArgs arguments.
MaxArgs == 3
\* The factorial program is generated for arguments 0..MaxFact.
MaxFact == 5

(***************************************************************************)
(* ast::Term -- the variants eval matches on.                              *)
(***************************************************************************)
TInt(n) == [kind |-> "Int", value |-> n]
TStr(s) == [kind |-> "Str", value |-> s]
TBool(b) == [kind |-> "Bool", value |-> b]
TVar(text) == [kind |-> "Var", text |-> text]
TBinary(op, lhs, rhs) == [kind |-> "Binary", op |-> op, lhs |-> lhs, rhs |-> rhs]
TIf(condition, then, otherwise) ==
    [kind |-> "If", condition |-> condition, then |-> then, otherwise |-> otherwise]
TLet(name, value, next) == [kind |-> "Let", name |-> name, value |-> value, next |-> next]
TFunction(parameters, value) == [kind |-> "Function", parameters |-> parameters, value |-> value]
TCall(callee, arguments) == [kind |-> "Call", callee |-> callee, arguments |-> arguments]
TPrint(value) == [kind |-> "Print", value |-> value]
TTuple(first, second) == [kind |-> "Tuple", first |-> first, second |-> second]
TFirst(value) == [kind |-> "First", value |-> value]
TSecond(value) == [kind |-> "Second", value |-> value]
TError(full_text) == [kind |-> "Error", full_text |-> full_text]

(***************************************************************************)
(* RuntimeValue.                                                           *)
(***************************************************************************)
VInt(x) == [t |-> "Int", v |-> x]
VStr(x) == [t |-> "Str", v |-> x]
VBool(x) == [t |-> "Bool", v |-> x]
VTuple(x) == [t |-> "Tuple", v |-> x]
VFunction(parameters, value) == [t |-> "Function", parameters |-> parameters, value |-> value]
VVoid == [t |-> "Void"]

(***************************************************************************)
(* Outcomes of a Rust call: a value, or a panic with its message.          *)
(***************************************************************************)
Ok(v) == [tag |-> "ok", val |-> v]
Panicked(kind, name) == [tag |-> "panic", err |-> [kind |-> kind, name |-> name]]
NoErr == [kind |-> "none", name |-> ""]

(***************************************************************************)
(* CallStack.                                                              *)
(***************************************************************************)
NoScope == [n \in {} |-> VVoid]

\* struct Call; `callee` is None for the frame main pushes and Some(..) for
\* the frames call_fn pushes.  The location field carries no behaviour.
Frame(callee, arguments, var_scope) ==
    [callee |-> callee, arguments |-> arguments, var_scope |-> var_scope]

RootFrame == Frame("None", <<>>, NoScope)

\* A call that forgets to push its frame.
push_Dropped(stk, value) == stk

push(stk, value) == Append(stk, value)

\* A return that forgets to pop its frame.
pop_Skipped(stk) == stk

\* Vec::pop: removes the last element, does nothing on an empty vector.
pop(stk) == IF stk = <<>> THEN stk ELSE SubSeq(stk, 1, Len(stk) - 1)

\* The match of get_var that copies the binding found.
CopyValue(rv) ==
    CASE rv.t = "Int" -> Ok(VInt(rv.v))
      [] rv.t = "Str" -> Ok(VStr(rv.v))
      [] rv.t = "Bool" -> Ok(VBool(rv.v))
      [] rv.t = "Tuple" -> Panicked("NotImplemented", "get_var")
      [] rv.t = "Function" -> Ok(VFunction(rv.parameters, rv.value))
      [] rv.t = "Void" -> Ok(VVoid)

\* The loop `for i in (0..len).rev()` of get_var, from frame i down to the root.
RECURSIVE ScanFrames(_, _, _)
ScanFrames(stk, name, i) ==
    IF i = 0 THEN Panicked("UnboundVariable", name)
    ELSE IF name \in DOMAIN stk[i].var_scope
         THEN CopyValue(stk[i].var_scope[name])
         ELSE ScanFrames(stk, name, i - 1)

\* A lookup that scans from the root frame to the most recent one.
RECURSIVE ScanFramesUp(_, _, _)
ScanFramesUp(stk, name, i) ==
    IF i > Len(stk) THEN Panicked("UnboundVariable", name)
    ELSE IF name \in DOMAIN stk[i].var_scope
         THEN CopyValue(stk[i].var_scope[name])
         ELSE ScanFramesUp(stk, name, i + 1)

get_var_RootFirst(stk, name) == ScanFramesUp(stk, name, 1)

\* A lookup that reads the current frame only.
get_var_TopOnly(stk, name) ==
    IF name \in DOMAIN stk[Len(stk)].var_scope
    THEN CopyValue(stk[Len(stk)].var_scope[name])
    ELSE Panicked("UnboundVariable", name)

\* A lookup that reads the root frame only.
get_var_RootOnly(stk, name) ==
    IF name \in DOMAIN stk[1].var_scope
    THEN CopyValue(stk[1].var_scope[name])
    ELSE Panicked("UnboundVariable", name)

get_var(stk, name) == ScanFrames(stk, name, Len(stk))

\* An insert that keeps the entry a key already has.
Insert_KeepOld(scope, key, value) == scope @@ (key :> value)

\* HashMap::insert: inserts or overwrites.
Insert(scope, key, value) == (key :> value) @@ scope

\* A bind that assigns to the nearest frame already holding the name.
set_var_Existing(stk, name, value) ==
    LET holders == {i \in 1 .. Len(stk) : name \in DOMAIN stk[i].var_scope}
        target == IF holders = {} THEN Len(stk)
                  ELSE CHOOSE i \in holders : \A j \in holders : j <= i
    IN [stk EXCEPT ![target].var_scope = Insert(@, name, value)]

\* A bind that always writes the root frame.
set_var_Root(stk, name, value) ==
    [stk EXCEPT ![1].var_scope = Insert(@, name, value)]

set_var(stk, name, value) ==
    [stk EXCEPT ![Len(stk)].var_scope = Insert(@, name, value)]

(***************************************************************************)
(* eval_binary_op.                                                         *)
(***************************************************************************)
Abs(x) == IF x < 0 THEN -x ELSE x

\* Rust's / on integers truncates toward zero, % takes the dividend's sign.
TruncDiv(l, r) ==
    LET q == Abs(l) \div Abs(r) IN IF (l < 0) # (r < 0) THEN -q ELSE q

BinaryOps == <<"Add", "Sub", "Mul", "Div", "Rem", "Eq", "Neq",
               "Lt", "Gt", "Lte", "Gte", "And", "Or">>

\* isize is as wide as the target's pointers.  The arithmetic of the model
\* is carried out at the width of the 16-bit targets, the widest whose
\* products the model checker's own integers hold; overflow arises the
\* same way at every width.
IsizeBits == 16
IsizeModulus == 2 ^ IsizeBits
ISIZE_MAX == 2 ^ (IsizeBits - 1) - 1
ISIZE_MIN == -(2 ^ (IsizeBits - 1))

\* Two's-complement wrapping of an exact result.
Wrap(x) == ((x - ISIZE_MIN) % IsizeModulus) + ISIZE_MIN

\* + - *: the exact result when it fits; otherwise a panic when the build
\* has overflow checks, the wrapped result when it has not.
Checked(op, x, overflow_checks) ==
    IF x >= ISIZE_MIN /\ x <= ISIZE_MAX THEN Ok(x)
    ELSE IF overflow_checks THEN Panicked("Overflow", op)
    ELSE Ok(Wrap(x))

\* A remainder that is never negative.
TruncRem_Modulo(l, r) == l % Abs(r)

TruncRem(l, r) == l - r * TruncDiv(l, r)

\* `overflow_checks` is the build's setting (on in debug, off in release).
\* / and % panic on a zero divisor and on isize::MIN / -1 in every build.
eval_binary_op(op, l, r, overflow_checks) ==
    IF l.t # "Int" THEN Panicked("OperandNotInt", "lhs")
    ELSE IF r.t # "Int" THEN Panicked("OperandNotInt", "rhs")
    ELSE CASE op = "Add" -> Checked(op, l.v + r.v, overflow_checks)
           [] op = "Sub" -> Checked(op, l.v - r.v, overflow_checks)
           [] op = "Mul" -> Checked(op, l.v * r.v, overflow_checks)
           [] op = "Div" -> IF r.v = 0 THEN Panicked("DivideByZero", op)
                            ELSE IF l.v = ISIZE_MIN /\ r.v = -1 THEN Panicked("Overflow", op)
                            ELSE Ok(TruncDiv(l.v, r.v))
           [] op = "Rem" -> IF r.v = 0 THEN Panicked("DivideByZero", op)
                            ELSE IF l.v = ISIZE_MIN /\ r.v = -1 THEN Panicked("Overflow", op)
                            ELSE Ok(TruncRem(l.v, r.v))
           [] op = "Eq" -> Ok(IF l.v = r.v THEN 1 ELSE 0)
           [] op = "Neq" -> Ok(IF l.v # r.v THEN 1 ELSE 0)
           [] op = "Lt" -> Ok(IF l.v < r.v THEN 1 ELSE 0)
           [] op = "Gt" -> Ok(IF l.v > r.v THEN 1 ELSE 0)
           [] op = "Lte" -> Ok(IF l.v <= r.v THEN 1 ELSE 0)
           [] op = "Gte" -> Ok(IF l.v >= r.v THEN 1 ELSE 0)
           [] op = "And" -> Ok(IF l.v # 0 /\ r.v # 0 THEN 1 ELSE 0)
           [] op = "Or" -> Ok(IF l.v # 0 \/ r.v # 0 THEN 1 ELSE 0)

(***************************************************************************)
(* print_value: the text print! writes for each RuntimeValue.              *)
(***************************************************************************)
Digit(d) ==
    CASE d = 0 -> "0" [] d = 1 -> "1" [] d = 2 -> "2" [] d = 3 -> "3"
      [] d = 4 -> "4" [] d = 5 -> "5" [] d = 6 -> "6" [] d = 7 -> "7"
      [] d = 8 -> "8" [] d = 9 -> "9"

RECURSIVE Decimal(_)
Decimal(n) ==
    IF n < 0 THEN "-" \o Decimal(-n)
    ELSE IF n < 10 THEN Digit(n)
    ELSE Decimal(n \div 10) \o Digit(n % 10)

\* A print that ends the line (println!).
Rendering_Newline(rv) ==
    CASE rv.t = "Int" -> Decimal(rv.v) \o "\n"
      [] rv.t = "Str" -> rv.v \o "\n"
      [] rv.t = "Bool" -> (IF rv.v THEN "true\n" ELSE "false\n")
      [] rv.t = "Tuple" -> "[tuple]\n"
      [] rv.t = "Function" -> "[function]\n"
      [] rv.t = "Void" -> "[void]\n"

Rendering(rv) ==
    CASE rv.t = "Int" -> Decimal(rv.v)
      [] rv.t = "Str" -> rv.v
      [] rv.t = "Bool" -> (IF rv.v THEN "true" ELSE "false")
      [] rv.t = "Tuple" -> "[tuple]"
      [] rv.t = "Function" -> "[function]"
      [] rv.t = "Void" -> "[void]"

(***************************************************************************)
(* The state of a run.                                                     *)
(***************************************************************************)
VARIABLES
    prog,     \* ast.expression, the program main evaluates
    ctl,      \* the term eval was called on, or the value a call returned
    kont,     \* the suspended activations of eval/call_fn/print_value
    stack,    \* call_stack.inner
    out,      \* what print! has written, one entry per print!
    status,   \* "running", "done", "panicked" or "aborted"
    err,      \* the panic message, once panicked
    result    \* the value eval returned to main

vars == <<prog, ctl, kont, stack, out, status, err, result>>

Evaluating(term) == [mode |-> "eval", term |-> term]
Returning(val) == [mode |-> "ret", val |-> val]
Halt == [mode |-> "halt"]
NoResult == [t |-> "None"]

AtEval(kind) == status = "running" /\ ctl.mode = "eval" /\ ctl.term.kind = kind
AtRet(k) ==
    /\ status = "running"
    /\ ctl.mode = "ret"
    /\ kont # <<>>
    /\ kont[Len(kont)].k = k
Top == kont[Len(kont)]
Rest == SubSeq(kont, 1, Len(kont) - 1)

\* A failure that is noted while evaluation goes on with Void.
Panic_Recover(e) ==
    /\ err' = e
    /\ ctl' = Returning(VVoid)
    /\ UNCHANGED <<prog, kont, stack, out, status, result>>

\* panic!: the run ends; unwinding drops every suspended activation, so
\* nothing that follows a suspended call (line 110's pop included) runs.
Panic(e) ==
    /\ status' = "panicked"
    /\ err' = e
    /\ ctl' = Halt
    /\ kont' = <<>>
    /\ UNCHANGED <<prog, stack, out, result>>

\* The host stack is exhausted: the process is killed where it stands.
Abort ==
    /\ status' = "aborted"
    /\ err' = [kind |-> "StackOverflow", name |-> ""]
    /\ ctl' = Halt
    /\ kont' = <<>>
    /\ UNCHANGED <<prog, stack, out, result>>

\* A step that only moves control.
Step(c, k) ==
    /\ ctl' = c
    /\ kont' = k
    /\ UNCHANGED <<prog, stack, out, status, err, result>>

(***************************************************************************)
(* eval: the arms that return at once.                                     *)
(***************************************************************************)
EvalError ==
    /\ AtEval("Error")
    /\ Panic([kind |-> "ParseError", name |-> ctl.term.full_text])

EvalInt ==
    /\ AtEval("Int")
    /\ Step(Returning(VInt(ctl.term.value)), kont)

EvalStr ==
    /\ AtEval("Str")
    /\ Step(Returning(VStr(ctl.term.value)), kont)

EvalBool ==
    /\ AtEval("Bool")
    /\ Step(Returning(VBool(ctl.term.value)), kont)

EvalFunction ==
    /\ AtEval("Function")
    /\ Step(Returning(VFunction(ctl.term.parameters, ctl.term.value)), kont)

EvalVar ==
    /\ AtEval("Var")
    /\ LET r == get_var(stack, ctl.term.text) IN
         IF r.tag = "panic" THEN Panic(r.err)
         ELSE Step(Returning(r.val), kont)

\* First, Second and Tuple are todo!().
EvalTodo ==
    /\ status = "running"
    /\ ctl.mode = "eval"
    /\ ctl.term.kind \in {"First", "Second", "Tuple"}
    /\ Panic([kind |-> "NotImplemented", name |-> ctl.term.kind])

(***************************************************************************)
(* eval, Term::Let.                                                        *)
(***************************************************************************)
EvalLet ==
    /\ AtEval("Let")
    /\ Step(Evaluating(ctl.term.value),
            Append(kont, [k |-> "Let", name |-> ctl.term.name, next |-> ctl.term.next]))

LetBind ==
    /\ AtRet("Let")
    /\ stack' = set_var(stack, Top.name, ctl.val)
    /\ ctl' = Evaluating(Top.next)
    /\ kont' = Rest
    /\ UNCHANGED <<prog, out, status, err, result>>

(***************************************************************************)
(* eval, Term::If.                                                         *)
(***************************************************************************)
\* A condition that takes only positive integers for true.
Branch_Positive(cond) ==
    CASE cond.t = "Bool" -> (IF cond.v THEN "then" ELSE "otherwise")
      [] cond.t = "Int" -> (IF cond.v > 0 THEN "then" ELSE "otherwise")
      [] OTHER -> "panic"

\* The match on the condition's value: which branch, or no branch.
Branch(cond) ==
    CASE cond.t = "Bool" -> (IF cond.v THEN "then" ELSE "otherwise")
      [] cond.t = "Int" -> (IF cond.v # 0 THEN "then" ELSE "otherwise")
      [] OTHER -> "panic"

EvalIf ==
    /\ AtEval("If")
    /\ Step(Evaluating(ctl.term.condition),
            Append(kont, [k |-> "If", then |-> ctl.term.then,
                          otherwise |-> ctl.term.otherwise]))

IfBranch ==
    /\ AtRet("If")
    /\ LET b == Branch(ctl.val) IN
         CASE b = "then" -> Step(Evaluating(Top.then), Rest)
           [] b = "otherwise" -> Step(Evaluating(Top.otherwise), Rest)
           [] OTHER -> Panic([kind |-> "ConditionNotBool", name |-> ""])

(***************************************************************************)
(* eval, Term::Binary.                                                     *)
(***************************************************************************)
EvalBinary ==
    /\ AtEval("Binary")
    /\ Step(Evaluating(ctl.term.lhs),
            Append(kont, [k |-> "BinaryLhs", op |-> ctl.term.op, rhs |-> ctl.term.rhs]))

\* A Binary that skips the right operand when the left one decides && or ||.
BinaryRhs_ShortCircuit ==
    /\ AtRet("BinaryLhs")
    /\ IF Top.op = "And" /\ ctl.val = VInt(0)
       THEN Step(Returning(VInt(0)), Rest)
       ELSE IF Top.op = "Or" /\ ctl.val.t = "Int" /\ ctl.val.v # 0
       THEN Step(Returning(VInt(1)), Rest)
       ELSE Step(Evaluating(Top.rhs),
                 Append(Rest, [k |-> "BinaryRhs", op |-> Top.op, l |-> ctl.val]))

BinaryRhs ==
    /\ AtRet("BinaryLhs")
    /\ Step(Evaluating(Top.rhs),
            Append(Rest, [k |-> "BinaryRhs", op |-> Top.op, l |-> ctl.val]))

BinaryApply ==
    /\ AtRet("BinaryRhs")
    /\ \E overflow_checks \in BOOLEAN :
         LET r == eval_binary_op(Top.op, Top.l, ctl.val, overflow_checks) IN
           IF r.tag = "panic" THEN Panic(r.err)
           ELSE Step(Returning(VInt(r.val)), Rest)

(***************************************************************************)
(* print_value.                                                            *)
(***************************************************************************)
EvalPrint ==
    /\ AtEval("Print")
    /\ Step(Evaluating(ctl.term.value), Append(kont, [k |-> "Print"]))

\* A print that returns the value it printed.
PrintValue_ReturnsOperand ==
    /\ AtRet("Print")
    /\ out' = Append(out, Rendering(ctl.val))
    /\ ctl' = Returning(ctl.val)
    /\ kont' = Rest
    /\ UNCHANGED <<prog, stack, status, err, result>>

PrintValue ==
    /\ AtRet("Print")
    /\ out' = Append(out, Rendering(ctl.val))
    /\ ctl' = Returning(VVoid)
    /\ kont' = Rest
    /\ UNCHANGED <<prog, stack, status, err, result>>

(***************************************************************************)
(* call_fn.                                                                *)
(***************************************************************************)
\* An arity check that only guards the index into the parameters.
ArityOk_AtMost(arguments, parameters) == Len(arguments) <= Len(parameters)

\* Line 87: the argument count the call accepts.
ArityOk(arguments, parameters) == Len(arguments) = Len(parameters)

\* A loop that never advances the parameter index.
ParamKey_First(parameters, i) == parameters[1]

\* Line 93: the key the i-th argument's value is inserted under.
ParamKey(parameters, i) == parameters[i]

\* Lines 98-104: push the callee's frame and evaluate its body; line 110's
\* pop waits in the activation left on `kont`.
EnterBody(fn, arguments, var_scope, k) ==
    IF Len(stack) >= MaxFrames THEN Abort
    ELSE /\ stack' = push(stack, Frame("Some", arguments, var_scope))
         /\ ctl' = Evaluating(fn.value)
         /\ kont' = Append(k, [k |-> "CallBody"])
         /\ UNCHANGED <<prog, out, status, err, result>>

\* A callee that is itself a call of a variable is looked through.
CalleeName_Through(callee) ==
    IF callee.kind = "Var" THEN Ok(callee.text)
    ELSE IF callee.kind = "Call" /\ callee.callee.kind = "Var"
    THEN Ok(callee.callee.text)
    ELSE Panicked("CalleeNotVar", "")

\* Lines 79-82: the callee term must be Term::Var; its text is the name.
CalleeName(callee) ==
    IF callee.kind = "Var" THEN Ok(callee.text)
    ELSE Panicked("CalleeNotVar", "")

\* Lines 79-95, up to the evaluation of the first argument.
EvalCall ==
    /\ AtEval("Call")
    /\ LET callee == ctl.term.callee
           arguments == ctl.term.arguments
       IN
         IF CalleeName(callee).tag = "panic" THEN Panic(CalleeName(callee).err)
         ELSE LET name == CalleeName(callee).val
                  r == get_var(stack, name)
              IN
                IF r.tag = "panic" THEN Panic(r.err)
                ELSE IF r.val.t # "Function"
                THEN Panic([kind |-> "NotCallable", name |-> name])
                ELSE IF ~ArityOk(arguments, r.val.parameters)
                THEN Panic([kind |-> "ArityMismatch", name |-> name])
                ELSE IF arguments = <<>>
                THEN EnterBody(r.val, arguments, NoScope, kont)
                ELSE Step(Evaluating(arguments[1]),
                          Append(kont, [k |-> "CallArg", fn |-> r.val,
                                        arguments |-> arguments, i |-> 1,
                                        var_scope |-> NoScope]))

\* Lines 92-97: the value of argument i is inserted under the i-th
\* parameter's name; then the next argument, or the push.
CallArgBound ==
    /\ AtRet("CallArg")
    /\ LET scope == Insert(Top.var_scope, ParamKey(Top.fn.parameters, Top.i), ctl.val) IN
         IF Top.i < Len(Top.arguments)
         THEN Step(Evaluating(Top.arguments[Top.i + 1]),
                   Append(Rest, [Top EXCEPT !.i = @ + 1, !.var_scope = scope]))
         ELSE EnterBody(Top.fn, Top.arguments, scope, Rest)

\* Lines 110-111: pop the frame, return the body's value.
CallReturn ==
    /\ AtRet("CallBody")
    /\ stack' = pop(stack)
    /\ ctl' = Returning(ctl.val)
    /\ kont' = Rest
    /\ UNCHANGED <<prog, out, status, err, result>>

(***************************************************************************)
(* main.                                                                   *)
(***************************************************************************)
\* Line 201 returns: main drops the value and ends with Ok(()).
MainReturn ==
    /\ status = "running"
    /\ ctl.mode = "ret"
    /\ kont = <<>>
    /\ status' = "done"
    /\ result' = ctl.val
    /\ ctl' = Halt
    /\ UNCHANGED <<prog, kont, stack, out, err>>

(***************************************************************************)
(* The programs main is run on: ast.expression, as decoded from the file.  *)
(***************************************************************************)
NoArgs == <<>>
Ints == 0 .. MaxInt

\* Terms of every value type, and terms whose evaluation fails.
ValueTerms ==
    {TInt(i) : i \in Ints} \cup
    {TInt(-1), TStr("a"), TBool(TRUE), TBool(FALSE),
     TFunction(<<"x">>, TVar("x")), TPrint(TStr("v"))}

FailTerms ==
    {TVar("nope"), TError("bad"), TTuple(TInt(1), TInt(2)),
     TFirst(TInt(1)), TSecond(TInt(1)),
     TBinary("Add", TStr("a"), TInt(1)), TBinary("Div", TInt(1), TInt(0)),
     TIf(TStr("a"), TInt(1), TInt(2)),
     TCall(TFunction(NoArgs, TInt(1)), NoArgs),
     TCall(TVar("one"), NoArgs),
     TCall(TVar("id"), NoArgs)}

\* let one = 1; let id = fn (x) => x; body
WithDefs(body) ==
    TLet("one", TInt(1), TLet("id", TFunction(<<"x">>, TVar("x")), body))

\* let x = V; x
ProgLet == {WithDefs(TLet("x", v, TVar("x"))) : v \in ValueTerms \cup FailTerms}

\* let x = a; let x = b; x
ProgLetTwice ==
    {TLet("x", a, TLet("x", b, TVar("x"))) : a \in ValueTerms, b \in ValueTerms}

\* let y = a; let x = (let y = b; y); print(x); y
\* the Let in the value expression binds in the same frame.
ProgLetNested ==
    {TLet("y", TInt(a), TLet("x", TLet("y", TInt(b), TVar("y")),
        TLet("r", TPrint(TVar("x")), TVar("y")))) : a \in Ints, b \in Ints}

\* if (print("c"); C) { let x = print("then"); 1 } else { let y = print("else"); 2 }
ProgIf ==
    {WithDefs(TIf(TLet("c", TPrint(TStr("c")), c),
                  TLet("x", TPrint(TStr("then")), TInt(1)),
                  TLet("y", TPrint(TStr("else")), TInt(2))))
       : c \in ValueTerms \cup FailTerms}

ParamName(i) == "p" \o Decimal(i)
Params(n) == [i \in 1 .. n |-> ParamName(i)]
PrintArgs(k) == [i \in 1 .. k |-> TLet("t", TPrint(TInt(i)), TInt(i))]

\* let f = fn (p1, .., pn) => (print("body"); pn); f(print(1); 1, .., print(k); k)
ProgArity ==
    {TLet("f", TFunction(Params(n),
                         TLet("b", TPrint(TStr("body")),
                              IF n = 0 THEN TInt(0) ELSE TVar(ParamName(n)))),
          TCall(TVar("f"), PrintArgs(k))) : n \in 0 .. MaxArgs, k \in 0 .. MaxArgs}

\* let v = R; let h = fn () => v; let g = fn () => h();
\* let f = fn () => (let v = i; g()); f()
ProgChain ==
    {TLet("v", r,
     TLet("h", TFunction(NoArgs, TVar("v")),
     TLet("g", TFunction(NoArgs, TCall(TVar("h"), NoArgs)),
     TLet("f", TFunction(NoArgs, TLet("v", TInt(i), TCall(TVar("g"), NoArgs))),
     TCall(TVar("f"), NoArgs))))) : r \in {TStr("root")}, i \in Ints}
    \cup
    {TLet("h", TFunction(NoArgs, TVar("v")),
     TLet("g", TFunction(NoArgs, TCall(TVar("h"), NoArgs)),
     TLet("f", TFunction(NoArgs, TLet("v", TInt(i), TCall(TVar("g"), NoArgs))),
     TCall(TVar("f"), NoArgs)))) : i \in Ints}

\* let a = fn () => (let v = i; v); let b = fn () => v; let r = a(); b()
ProgSibling ==
    {TLet("a", TFunction(NoArgs, TLet("v", TInt(i), TVar("v"))),
     TLet("b", TFunction(NoArgs, TVar("v")),
     TLet("r", TCall(TVar("a"), NoArgs),
     TCall(TVar("b"), NoArgs)))) : i \in Ints}

\* let x = a; let f = fn () => (let x = b; print(x)); let r = f(); print(x)
ProgShadow ==
    {TLet("x", TInt(a),
     TLet("f", TFunction(NoArgs, TLet("x", TInt(b), TPrint(TVar("x")))),
     TLet("r", TCall(TVar("f"), NoArgs),
     TPrint(TVar("x"))))) : a \in Ints, b \in Ints}

\* let x = a; let f = fn (x) => print(x); let r = f(x + 1); print(x)
ProgParamShadow ==
    {TLet("x", TInt(a),
     TLet("f", TFunction(<<"x">>, TPrint(TVar("x"))),
     TLet("r", TCall(TVar("f"), <<TBinary("Add", TVar("x"), TInt(1))>>),
     TPrint(TVar("x"))))) : a \in Ints}

\* let f = fn (x, y) => print(x - y); f((print("A"); a), (print("B"); b))
ProgArgOrder ==
    {TLet("f", TFunction(<<"x", "y">>, TPrint(TBinary("Sub", TVar("x"), TVar("y")))),
     TCall(TVar("f"), <<TLet("t", TPrint(TStr("A")), TInt(a)),
                        TLet("t", TPrint(TStr("B")), TInt(b))>>))
       : a \in Ints, b \in Ints}

\* let f = fn (x, x) => x; f(a, b)
ProgDupParams ==
    {TLet("f", TFunction(<<"x", "x">>, TVar("x")),
     TCall(TVar("f"), <<TInt(a), TInt(b)>>)) : a \in Ints, b \in Ints}

\* let f = fn () => F; let g = fn (x) => (let r = f(); x); g(print("arg"))
\* a failure two calls deep.
ProgNestedFail ==
    {WithDefs(
     TLet("f", TFunction(NoArgs, F),
     TLet("g", TFunction(<<"x">>, TLet("r", TCall(TVar("f"), NoArgs), TVar("x"))),
     TCall(TVar("g"), <<TPrint(TStr("arg"))>>)))) : F \in ValueTerms \cup FailTerms}

\* let f = fn (x) => x; f(F): a failure in an argument.
ProgArgFail ==
    {WithDefs(TCall(TVar("id"), <<F>>)) : F \in FailTerms}

\* let fact = fn (n) => if (n == 0) { 1 } else { n * fact(n - 1) }; print(fact(N))
FactProgram(N) ==
    TLet("fact",
         TFunction(<<"n">>,
                   TIf(TBinary("Eq", TVar("n"), TInt(0)),
                       TInt(1),
                       TBinary("Mul", TVar("n"),
                               TCall(TVar("fact"), <<TBinary("Sub", TVar("n"), TInt(1))>>)))),
         TPrint(TCall(TVar("fact"), <<TInt(N)>>)))

ProgFact == {FactProgram(N) : N \in 0 .. MaxFact}

\* let f = fn () => f(); f(): recursion without end.
ProgLoop ==
    {TLet("f", TFunction(NoArgs, TCall(TVar("f"), NoArgs)), TCall(TVar("f"), NoArgs))}

OpSet == {BinaryOps[i] : i \in 1 .. Len(BinaryOps)}

\* (let l = print("L"); A) op (let r = print("R"); B)
ProgBinaryEffects ==
    {TBinary(op, TLet("l", TPrint(TStr("L")), a), TLet("r", TPrint(TStr("R")), b))
       : op \in OpSet,
         a \in {TInt(0), TInt(1), TStr("a")},
         b \in {TInt(0), TInt(1), TStr("a"), TVar("nope")}}

\* A op B for integers around zero and at the ends of the isize range.
Operands == (-MaxInt .. MaxInt) \cup {-7, 7, ISIZE_MIN, ISIZE_MAX}

ProgBinary ==
    {TBinary(op, TInt(a), TInt(b)) : op \in OpSet, a \in Operands, b \in Operands}

\* A op B with an operand that is not an integer.
ProgBinaryTypes ==
    {TBinary(op, a, b) : op \in OpSet,
                         a \in {TInt(1), TBool(TRUE), TStr("a")},
                         b \in {TInt(1), TBool(FALSE), TFunction(NoArgs, TInt(1)),
                                TPrint(TInt(1))}} \ ProgBinary

\* print(V); print(print(i)); print(2 + 3); let x = print(i); print(x)
ProgPrint ==
    {TPrint(v) : v \in ValueTerms}
    \cup {TPrint(TPrint(TInt(i))) : i \in Ints}
    \cup {TPrint(TBinary("Add", TInt(2), TInt(3)))}
    \cup {TLet("x", TPrint(TInt(i)), TPrint(TVar("x"))) : i \in Ints}

\* first((a, b)); second((a, b)); (a, b); let t = (a, b); first(t); first(a)
ProgTuple ==
    UNION {{TFirst(TTuple(TInt(a), TInt(b))),
            TSecond(TTuple(TInt(a), TInt(b))),
            TTuple(TInt(a), TInt(b)),
            TLet("t", TTuple(TInt(a), TInt(b)), TFirst(TVar("t"))),
            TFirst(TInt(a)), TSecond(TInt(a))} : a \in Ints, b \in Ints}

\* let a = print("before"); let b = F; print("after")
ProgFailThenPrint ==
    {WithDefs(TLet("a", TPrint(TStr("before")),
              TLet("b", F, TPrint(TStr("after"))))) : F \in FailTerms}

\* let x = "root"; let show = fn () => print(x);
\* let a = fn () => (let x = A; show()); let b = fn () => (let x = B; show());
\* let r = a(); let s = b(); show()
ProgDynamic ==
    {TLet("x", TStr("root"),
     TLet("show", TFunction(NoArgs, TPrint(TVar("x"))),
     TLet("a", TFunction(NoArgs, TLet("x", TInt(A), TCall(TVar("show"), NoArgs))),
     TLet("b", TFunction(NoArgs, TLet("x", TInt(B), TCall(TVar("show"), NoArgs))),
     TLet("r", TCall(TVar("a"), NoArgs),
     TLet("s", TCall(TVar("b"), NoArgs),
     TCall(TVar("show"), NoArgs))))))) : A \in Ints, B \in Ints}

\* let mk = fn () => (let y = i; fn () => y); let g = mk(); R
\* with R either g() or (let y = j; g())
ProgNoCapture ==
    {TLet("mk", TFunction(NoArgs, TLet("y", TInt(i), TFunction(NoArgs, TVar("y")))),
     TLet("g", TCall(TVar("mk"), NoArgs),
     R)) : i \in Ints,
           R \in {TCall(TVar("g"), NoArgs)}
                 \cup {TLet("y", TInt(j), TCall(TVar("g"), NoArgs)) : j \in Ints}}

\* Callee expressions: a function literal, a nested call, a literal, a
\* variable bound to an integer, an unbound variable, a variable bound to a
\* function of one parameter.
Callees ==
    {TFunction(<<"x">>, TVar("x")), TCall(TVar("id"), <<TVar("id")>>), TInt(1),
     TVar("one"), TVar("nope"), TVar("id")}

\* let one = 1; let id = fn (x) => x;
\* let f = fn () => C(print(1); 1, .., print(k); k); f()
ProgCallee ==
    {WithDefs(TLet("f", TFunction(NoArgs, TCall(c, PrintArgs(k))),
                   TCall(TVar("f"), NoArgs))) : c \in Callees, k \in 0 .. MaxArgs}

\* let f = fn (x) => print("old");
\* let r = f((let f = fn (x) => print("new"); i)); f(i)
ProgRebind ==
    {TLet("f", TFunction(<<"x">>, TPrint(TStr("old"))),
     TLet("r", TCall(TVar("f"),
                     <<TLet("f", TFunction(<<"x">>, TPrint(TStr("new"))), TInt(i))>>),
     TCall(TVar("f"), <<TInt(i)>>))) : i \in Ints}

\* let x = A;
\* let f = fn (x) => (let z = "local"; let q = print(t); print(x));
\* let r = f((let t = B; "arg")); R
\* with R one of (let u = print(t); print(x)), z, q.
ArgLetCore(A, B, R) ==
    TLet("x", TInt(A),
    TLet("f", TFunction(<<"x">>,
                  TLet("z", TStr("local"),
                  TLet("q", TPrint(TVar("t")), TPrint(TVar("x"))))),
    TLet("r", TCall(TVar("f"), <<TLet("t", TInt(B), TStr("arg"))>>),
    R)))

ArgLetRest ==
    {TLet("u", TPrint(TVar("t")), TPrint(TVar("x"))), TVar("z"), TVar("q")}

\* The program above at the root, and as the body of a function g called
\* from the root: let g = fn () => (..); g()
ProgArgLet ==
    {ArgLetCore(A, B, R) : A \in Ints, B \in Ints, R \in ArgLetRest}
    \cup {TLet("g", TFunction(NoArgs, ArgLetCore(A, B, R)), TCall(TVar("g"), NoArgs))
            : A \in Ints, B \in Ints, R \in ArgLetRest}

Programs ==
    ProgLet \cup ProgLetTwice \cup ProgLetNested \cup ProgIf \cup ProgArity
    \cup ProgChain \cup ProgSibling \cup ProgShadow \cup ProgParamShadow
    \cup ProgArgOrder \cup ProgDupParams \cup ProgNestedFail \cup ProgArgFail
    \cup ProgFact \cup ProgLoop \cup ProgBinaryEffects \cup ProgBinary
    \cup ProgBinaryTypes \cup ProgPrint \cup ProgTuple \cup ProgFailThenPrint
    \cup ProgDynamic \cup ProgNoCapture \cup ProgCallee \cup ProgRebind
    \cup ProgArgLet

(***************************************************************************)
(* main, lines 194-201: the root frame is pushed, eval is called.          *)
(***************************************************************************)
Init ==
    /\ prog \in Programs
    /\ ctl = Evaluating(prog)
    /\ kont = <<>>
    /\ stack = <<RootFrame>>
    /\ out = <<>>
    /\ status = "running"
    /\ err = NoErr
    /\ result = NoResult

Next ==
    \/ EvalError
    \/ EvalInt
    \/ EvalStr
    \/ EvalBool
    \/ EvalFunction
    \/ EvalVar
    \/ EvalTodo
    \/ EvalLet
    \/ LetBind
    \/ EvalIf
    \/ IfBranch
    \/ EvalBinary
    \/ BinaryRhs
    \/ BinaryApply
    \/ EvalPrint
    \/ PrintValue
    \/ EvalCall
    \/ CallArgBound
    \/ CallReturn
    \/ MainReturn

Spec == Init /\ [][Next]_vars

(***************************************************************************)
(* Properties.                                                             *)
(***************************************************************************)
Range(s) == {s[i] : i \in 1 .. Len(s)}

\* The frames that bind `name`, by index.
Binders(stk, name) == {i \in 1 .. Len(stk) : name \in DOMAIN stk[i].var_scope}

Max(S) == CHOOSE m \in S : \A n \in S : n <= m

\* The activations of call_fn on `k` that have pushed their frame.
PendingBodies(k) == Cardinality({i \in 1 .. Len(k) : k[i].k = "CallBody"})

\* WithDefs(body) is let one = ..; let id = ..; body
Body(p) == p.next.next

\* C1: when evaluation fails inside a function call, every frame pushed
\* before the failure is popped again: after the failure is reported the
\* call stack holds only the root frame.
C1_FramesUnwoundOnFailure ==
    status = "panicked" => Len(stack) = 1

\* C2: a call that completes pops exactly the frame it pushed and returns
\* the value of the callee body: every activation that has pushed a frame
\* accounts for exactly one frame above the root, its return removes the
\* top frame only and hands the body's value on, and a run that completes
\* ends with the root frame alone.
C2_CallBalanced ==
    /\ [](status = "running" => Len(stack) = 1 + PendingBodies(kont))
    /\ [](status = "done" => Len(stack) = 1)
    /\ [][AtRet("CallBody") =>
            /\ Len(stack) >= 2
            /\ stack' = SubSeq(stack, 1, Len(stack) - 1)
            /\ ctl' = Returning(ctl.val)
            /\ kont' = Rest]_vars

C2_Witness ==
    /\ status = "done"
    /\ prog \in ProgFact
    /\ out = <<"6">>
    /\ Len(stack) = 1

\* C3: in every state the call stack is non-empty and its first frame is
\* the root frame main pushed (callee None, no arguments); every other
\* frame is a frame of call_fn.
C3_RootFramePersists ==
    /\ Len(stack) >= 1
    /\ stack[1].callee = "None"
    /\ stack[1].arguments = <<>>
    /\ \A i \in 2 .. Len(stack) : stack[i].callee = "Some"

C3_Witness ==
    /\ status = "panicked"
    /\ err.kind \in {"NotCallable", "ArityMismatch"}
    /\ Len(stack) >= 2
    /\ stack[1].callee = "None"

\* C4: a variable resolves to a copy of its binding in the most recent
\* frame that binds it, whatever the frames below bind; when no frame binds
\* it the run fails with the unbound-variable error and no value is returned.
C4_ResolveMostRecent ==
    [][AtEval("Var") =>
        LET name == ctl.term.text
            B == Binders(stack, name)
        IN IF B = {}
           THEN /\ status' = "panicked"
                /\ err' = [kind |-> "UnboundVariable", name |-> name]
                /\ ctl' = Halt
                /\ stack' = stack
           ELSE /\ status' = "running"
                /\ ctl' = Returning(stack[Max(B)].var_scope[name])
                /\ stack' = stack
                /\ kont' = kont]_vars

C4_Witness ==
    /\ status = "running"
    /\ ctl.mode = "ret"
    /\ Len(stack) >= 2
    /\ \E name \in DOMAIN stack[Len(stack)].var_scope :
         /\ name \in DOMAIN stack[1].var_scope
         /\ stack[1].var_scope[name] # stack[Len(stack)].var_scope[name]
         /\ ctl.val = stack[Len(stack)].var_scope[name]
         /\ prog \in ProgShadow

\* The integer f binds to v in a program of ProgChain.
ChainValue(p) ==
    IF p.name = "v" THEN p.next.next.next.value.value.value.value
    ELSE p.next.next.value.value.value.value

\* C5: in a chain f -> g -> h, h's body resolves a name bound only in f's
\* frame (two frames below its own) to f's value; and once a call has
\* returned, the names bound only in its frame are bound nowhere, so a
\* later sibling call that refers to one fails as unbound.
C5_ScopeVisibility ==
    /\ [][AtEval("Var") /\ Len(stack) >= 4 =>
            LET n == Len(stack)
                name == ctl.term.text
            IN (/\ name \in DOMAIN stack[n - 2].var_scope
                /\ name \notin DOMAIN stack[n - 1].var_scope
                /\ name \notin DOMAIN stack[n].var_scope)
               => /\ status' = "running"
                  /\ ctl' = Returning(stack[n - 2].var_scope[name])]_vars
    /\ [][AtRet("CallBody") =>
            \A name \in DOMAIN stack[Len(stack)].var_scope :
                Binders(stack, name) = {Len(stack)} => Binders(stack', name) = {}]_vars
    /\ [](prog \in ProgChain /\ status # "running" =>
            status = "done" /\ result = VInt(ChainValue(prog)))
    /\ [](prog \in ProgSibling /\ status # "running" =>
            /\ status = "panicked"
            /\ err = [kind |-> "UnboundVariable", name |-> "v"]
            /\ Len(stack) = 2
            /\ Binders(stack, "v") = {})

C5_Witness ==
    /\ prog \in ProgChain
    /\ prog.name = "v"
    /\ Len(stack) = 4
    /\ Binders(stack, "v") = {1, 2}
    /\ ctl = Returning(VInt(1))

\* C6: no step writes a frame below the most recent one: a bind made
\* while a callee runs (Let or parameter binding) changes the top frame
\* only, so every suspended caller's frame is the same at the callee's pop
\* as at its push, also when the callee binds a name a caller binds too.
C6_CallerFramesUntouched ==
    /\ [][status = "running" =>
            /\ Len(stack') >= Len(stack) - 1
            /\ \A i \in 1 .. Len(stack) - 1 : stack'[i] = stack[i]]_vars
    /\ [][AtRet("Let") =>
            /\ Len(stack') = Len(stack)
            /\ Top.name \in DOMAIN stack'[Len(stack)].var_scope]_vars
    /\ [](prog \in ProgShadow /\ status # "running" =>
            /\ status = "done"
            /\ out = <<Decimal(prog.next.value.value.value.value), Decimal(prog.value.value)>>)

C6_Witness ==
    /\ prog \in ProgShadow
    /\ status = "running"
    /\ Len(stack) = 2
    /\ Binders(stack, "x") = {1, 2}
    /\ stack[1].var_scope["x"] = VInt(1)
    /\ stack[2].var_scope["x"] = VInt(2)
    /\ out = <<"2">>

\* The integer an argument of ProgDupParams or ProgArgOrder evaluates to.
ArgLiteral(arg) == IF arg.kind = "Int" THEN arg.value ELSE arg.next.value

\* C7 as stated: the i-th parameter is bound to the value of the i-th
\* argument, for every i.
C7_ParamsBoundPositionally ==
    (prog \in ProgDupParams \cup ProgArgOrder /\ Len(stack) = 2) =>
        \A j \in 1 .. Len(prog.next.arguments) :
            stack[2].var_scope[prog.value.parameters[j]]
                = VInt(ArgLiteral(prog.next.arguments[j]))

\* The bindings collected once the value of argument i is inserted.
ScopeAfterArg(old, new, parameters, i, val) ==
    /\ DOMAIN new = {parameters[j] : j \in 1 .. i}
    /\ new[parameters[i]] = val
    /\ \A j \in 1 .. i - 1 : parameters[j] # parameters[i] => new[parameters[j]] = old[parameters[j]]

\* C7 amended: the arguments are evaluated left to right against the
\* caller's stack, all of them before the callee frame is pushed and before
\* any effect of the body; the value of the i-th argument is inserted under
\* the i-th parameter's name, so a parameter is bound to its argument
\* unless a later parameter has the same name, whose argument then
\* replaces it.
C7_ArgsBeforeFrame ==
    /\ [][AtEval("Call") /\ status' = "running" /\ ctl.term.arguments # <<>> =>
            /\ stack' = stack
            /\ out' = out
            /\ ctl' = Evaluating(ctl.term.arguments[1])]_vars
    /\ [][AtRet("CallArg") /\ status' = "running" =>
            IF Top.i < Len(Top.arguments)
            THEN /\ stack' = stack
                 /\ out' = out
                 /\ ctl' = Evaluating(Top.arguments[Top.i + 1])
                 /\ ScopeAfterArg(Top.var_scope, kont'[Len(kont')].var_scope,
                                  Top.fn.parameters, Top.i, ctl.val)
            ELSE /\ Len(stack') = Len(stack) + 1
                 /\ SubSeq(stack', 1, Len(stack)) = stack
                 /\ out' = out
                 /\ ctl' = Evaluating(Top.fn.value)
                 /\ ScopeAfterArg(Top.var_scope, stack'[Len(stack')].var_scope,
                                  Top.fn.parameters, Top.i, ctl.val)]_vars
    /\ [](prog \in ProgArgOrder /\ status # "running" =>
            /\ status = "done"
            /\ out = <<"A", "B", Decimal(ArgLiteral(prog.next.arguments[1])
                                          - ArgLiteral(prog.next.arguments[2]))>>)
    /\ [](prog \in ProgParamShadow /\ status # "running" =>
            /\ status = "done"
            /\ out = <<Decimal(prog.value.value + 1), Decimal(prog.value.value)>>)
    /\ [](prog \in ProgDupParams /\ status # "running" =>
            /\ status = "done"
            /\ result = VInt(ArgLiteral(prog.next.arguments[2])))

C7_Witness ==
    /\ prog \in ProgArgOrder
    /\ status = "done"
    /\ out = <<"A", "B", "-1">>
    /\ Len(stack) = 1

\* C8: a call of a resolved function proceeds exactly when the number of
\* argument expressions equals the number of parameters; otherwise it
\* fails with the arity error before any frame is pushed, any output is
\* written or the body is evaluated.
C8_ArityExact ==
    /\ [][(/\ AtEval("Call")
           /\ ctl.term.callee.kind = "Var"
           /\ Binders(stack, ctl.term.callee.text) # {}) =>
            LET name == ctl.term.callee.text
                fn == stack[Max(Binders(stack, name))].var_scope[name]
            IN fn.t = "Function" =>
                 IF Len(ctl.term.arguments) = Len(fn.parameters)
                 THEN status' # "panicked"
                 ELSE /\ status' = "panicked"
                      /\ err' = [kind |-> "ArityMismatch", name |-> name]
                      /\ ctl' = Halt
                      /\ kont' = <<>>
                      /\ stack' = stack
                      /\ out' = out]_vars
    /\ [](prog \in ProgArity =>
            IF Len(prog.next.arguments) = Len(prog.value.parameters)
            THEN status # "panicked"
                 /\ (status = "done" => out[Len(out)] = "body")
            ELSE /\ "body" \notin Range(out)
                 /\ Len(stack) = 1
                 /\ status # "done")

C8_Witness ==
    /\ prog \in ProgArity
    /\ status = "panicked"
    /\ err = [kind |-> "ArityMismatch", name |-> "f"]
    /\ Len(prog.value.parameters) = 2
    /\ Len(prog.next.arguments) = 3
    /\ out = <<>>

\* The value a literal, function or print term stands for.
Denotes(term) ==
    CASE term.kind = "Int" -> VInt(term.value)
      [] term.kind = "Str" -> VStr(term.value)
      [] term.kind = "Bool" -> VBool(term.value)
      [] term.kind = "Function" -> VFunction(term.parameters, term.value)
      [] term.kind = "Print" -> VVoid

\* C9: Let evaluates its value expression first, then writes the value
\* under the name into the most recent frame (inserting or overwriting,
\* every other binding and frame untouched, no frame pushed), then
\* evaluates next and returns its value; let x = v; x returns v for every
\* value v, and of two writes of a name the last wins.
C9_LetBindsInPlace ==
    /\ [][AtEval("Let") =>
            /\ ctl' = Evaluating(ctl.term.value)
            /\ stack' = stack
            /\ out' = out]_vars
    /\ [][AtRet("Let") =>
            LET n == Len(stack) IN
            /\ Len(stack') = n
            /\ \A i \in 1 .. n - 1 : stack'[i] = stack[i]
            /\ DOMAIN stack'[n].var_scope = DOMAIN stack[n].var_scope \cup {Top.name}
            /\ stack'[n].var_scope[Top.name] = ctl.val
            /\ \A m \in DOMAIN stack[n].var_scope \ {Top.name} :
                  stack'[n].var_scope[m] = stack[n].var_scope[m]
            /\ ctl' = Evaluating(Top.next)
            /\ kont' = Rest]_vars
    /\ [](prog \in ProgLet /\ status = "done" => result = Denotes(Body(prog).value))
    /\ [](prog \in ProgLet /\ Body(prog).value \in ValueTerms => status # "panicked")
    /\ [](prog \in ProgLetTwice /\ status # "running" =>
            /\ status = "done"
            /\ result = Denotes(prog.next.value)
            /\ DOMAIN stack[1].var_scope = {"x"})
    /\ [](prog \in ProgLetNested /\ status # "running" =>
            /\ status = "done"
            /\ result = VInt(prog.next.value.value.value)
            /\ out = <<Decimal(prog.next.value.value.value)>>)

C9_Witness ==
    /\ prog \in ProgLetTwice
    /\ status = "done"
    /\ prog.value = TInt(1)
    /\ prog.next.value = TStr("a")
    /\ result = VStr("a")

\* How often x was written.
Count(s, x) == Cardinality({i \in 1 .. Len(s) : s[i] = x})

\* C10: If evaluates its condition once and then exactly one branch: then
\* for Bool true or a nonzero Int, otherwise for Bool false or Int 0; any
\* other condition value fails with the condition error and evaluates
\* neither branch.
C10_IfBranches ==
    /\ [][AtEval("If") =>
            /\ ctl' = Evaluating(ctl.term.condition)
            /\ stack' = stack
            /\ out' = out]_vars
    /\ [][AtRet("If") =>
            LET c == ctl.val IN
            IF (c.t = "Bool" /\ c.v) \/ (c.t = "Int" /\ c.v # 0)
            THEN Step(Evaluating(Top.then), Rest)
            ELSE IF (c.t = "Bool" /\ ~c.v) \/ (c.t = "Int" /\ c.v = 0)
            THEN Step(Evaluating(Top.otherwise), Rest)
            ELSE /\ status' = "panicked"
                 /\ err' = [kind |-> "ConditionNotBool", name |-> ""]
                 /\ ctl' = Halt
                 /\ kont' = <<>>
                 /\ stack' = stack
                 /\ out' = out]_vars
    /\ [](prog \in ProgIf =>
            /\ Count(out, "c") <= 1
            /\ Count(out, "then") + Count(out, "else") <= 1
            /\ ~({"x", "y"} \subseteq DOMAIN stack[1].var_scope)
            /\ status = "done" =>
                 \/ result = VInt(1) /\ out[Len(out)] = "then" /\ "x" \in DOMAIN stack[1].var_scope
                 \/ result = VInt(2) /\ out[Len(out)] = "else" /\ "y" \in DOMAIN stack[1].var_scope)
    /\ [](prog \in ProgIf /\ status = "panicked" =>
            /\ Count(out, "then") + Count(out, "else") = 0
            /\ {"x", "y"} \cap DOMAIN stack[1].var_scope = {})

C10_Witness ==
    /\ prog \in ProgIf
    /\ status = "done"
    /\ Body(prog).condition.next = TInt(-1)
    /\ result = VInt(1)
    /\ out = <<"c", "then">>

\* C11: Binary evaluates both operands, the left one completely before the
\* right one, for every operator, && and || included, whatever the left
\* operand's value or type: the effects of the right operand always occur,
\* and an operand of the wrong type is reported only after both are
\* evaluated.
C11_BothOperandsEvaluated ==
    /\ [][AtEval("Binary") =>
            /\ status' = "running"
            /\ ctl' = Evaluating(ctl.term.lhs)
            /\ stack' = stack
            /\ out' = out]_vars
    /\ [][AtRet("BinaryLhs") =>
            /\ status' = "running"
            /\ ctl' = Evaluating(Top.rhs)
            /\ stack' = stack
            /\ out' = out]_vars
    /\ [][status' = "panicked" /\ err'.kind = "OperandNotInt" => AtRet("BinaryRhs")]_vars
    /\ [](prog \in ProgBinaryEffects /\ status # "running" =>
            /\ out = <<"L", "R">>
            /\ "l" \in DOMAIN stack[1].var_scope
            /\ (prog.rhs.next = TVar("nope") <=>
                  (status = "panicked" /\ err = [kind |-> "UnboundVariable", name |-> "nope"]))
            /\ (prog.rhs.next # TVar("nope") => "r" \in DOMAIN stack[1].var_scope)
            /\ (prog.rhs.next # TVar("nope") /\ TStr("a") \in {prog.lhs.next, prog.rhs.next} =>
                  status = "panicked" /\ err.kind = "OperandNotInt"))

C11_Witness ==
    /\ prog \in ProgBinaryEffects
    /\ prog.op = "And"
    /\ prog.lhs.next = TInt(0)
    /\ prog.rhs.next = TInt(1)
    /\ status = "done"
    /\ out = <<"L", "R">>
    /\ result = VInt(0)

\* The operator table: the quotient rounded toward zero, the remainder that
\* goes with it, and 1 or 0 for the comparisons and the logic.
TableQuotient(a, b) ==
    CHOOSE q \in -Abs(a) .. Abs(a) :
        /\ Abs(a - q * b) < Abs(b)
        /\ (a - q * b = 0 \/ ((a - q * b < 0) <=> (a < 0)))

Table(op, a, b) ==
    CASE op = "Add" -> a + b
      [] op = "Sub" -> a - b
      [] op = "Mul" -> a * b
      [] op = "Div" -> TableQuotient(a, b)
      [] op = "Rem" -> a - b * TableQuotient(a, b)
      [] op = "Eq" -> (IF a = b THEN 1 ELSE 0)
      [] op = "Neq" -> (IF a = b THEN 0 ELSE 1)
      [] op = "Lt" -> (IF b > a THEN 1 ELSE 0)
      [] op = "Gt" -> (IF a > b THEN 1 ELSE 0)
      [] op = "Lte" -> (IF a > b THEN 0 ELSE 1)
      [] op = "Gte" -> (IF b > a THEN 0 ELSE 1)
      [] op = "And" -> (IF a = 0 \/ b = 0 THEN 0 ELSE 1)
      [] op = "Or" -> (IF a = 0 /\ b = 0 THEN 0 ELSE 1)

BothInts == Top.l.t = "Int" /\ ctl.val.t = "Int"
ZeroDivisor == Top.op \in {"Div", "Rem"} /\ ctl.val.v = 0
MinByMinusOne == Top.op \in {"Div", "Rem"} /\ Top.l.v = ISIZE_MIN /\ ctl.val.v = -1
Representable(x) == x >= ISIZE_MIN /\ x <= ISIZE_MAX

\* C12 as stated: for all Int operands (a nonzero divisor for / and %) the
\* operation returns the Int the operator table gives.
C12_TableForAllInts ==
    [][AtRet("BinaryRhs") /\ BothInts /\ ~ZeroDivisor =>
          /\ status' = "running"
          /\ ctl' = Returning(VInt(Table(Top.op, Top.l.v, ctl.val.v)))]_vars

\* C12 amended: for Int operands the operation returns the Int of the
\* operator table whenever that result is representable as an isize and the
\* operation is not isize::MIN / -1 or isize::MIN % -1.  A result of + - *
\* outside the isize range panics in a build with overflow checks and wraps
\* modulo 2^width in a build without; isize::MIN / -1, isize::MIN % -1 and
\* a zero divisor panic in every build; an operand that is not an Int fails
\* with the operand-type error.
C12_TableWhereRepresentable ==
    [][AtRet("BinaryRhs") =>
          IF ~BothInts
          THEN status' = "panicked" /\ err'.kind = "OperandNotInt"
          ELSE IF ZeroDivisor
          THEN status' = "panicked" /\ err'.kind = "DivideByZero"
          ELSE IF MinByMinusOne
          THEN status' = "panicked" /\ err'.kind = "Overflow"
          ELSE LET x == Table(Top.op, Top.l.v, ctl.val.v) IN
               IF Representable(x)
               THEN /\ status' = "running"
                    /\ ctl' = Returning(VInt(x))
                    /\ kont' = Rest
                    /\ stack' = stack
                    /\ out' = out
               ELSE /\ Top.op \in {"Add", "Sub", "Mul"}
                    /\ \/ status' = "panicked" /\ err'.kind = "Overflow"
                       \/ /\ status' = "running"
                          /\ ctl'.mode = "ret"
                          /\ ctl'.val.t = "Int"
                          /\ Representable(ctl'.val.v)
                          /\ (ctl'.val.v - x) % IsizeModulus = 0]_vars

C12_Witness ==
    /\ prog \in ProgBinary
    /\ prog.op = "Rem"
    /\ prog.lhs = TInt(-7)
    /\ prog.rhs = TInt(2)
    /\ status = "done"
    /\ result = VInt(-1)

\* The text on standard output: the writes, one after the other.
RECURSIVE OutText(_)
OutText(writes) ==
    IF writes = <<>> THEN "" ELSE OutText(SubSeq(writes, 1, Len(writes) - 1)) \o writes[Len(writes)]

RECURSIVE Factorial(_)
Factorial(n) == IF n = 0 THEN 1 ELSE n * Factorial(n - 1)

\* C13: the program that Let-binds the recursive factorial in the root
\* frame, calls it with 5 and prints the result ends successfully, has
\* written exactly the text 120 and leaves only the root frame on the call
\* stack; for every argument the model generates it writes the factorial.
C13_FactorialEndToEnd ==
    /\ [](prog = FactProgram(5) /\ status # "running" =>
            /\ status = "done"
            /\ OutText(out) = "120"
            /\ Len(out) = 1
            /\ Len(stack) = 1
            /\ DOMAIN stack[1].var_scope = {"fact"}
            /\ result = VVoid)
    /\ [](prog \in ProgFact /\ status # "running" =>
            /\ status = "done"
            /\ Len(stack) = 1
            /\ \E N \in 0 .. MaxFact :
                 prog = FactProgram(N) /\ OutText(out) = Decimal(Factorial(N)))
    /\ [](prog = FactProgram(5) => Len(stack) <= 7)

C13_Witness ==
    /\ prog = FactProgram(5)
    /\ status = "done"
    /\ out = <<"120">>
    /\ Len(stack) = 1
    /\ result = VVoid

\* C14: Print evaluates its operand first, then appends exactly one
\* rendering of the value to the output and returns Void, leaving the call
\* stack as the operand left it; nothing else writes, and nothing written
\* is ever changed, so the output is the sequence of renderings in the
\* order in which the prints complete.
C14_PrintAppendsOnce ==
    /\ [][AtEval("Print") =>
            /\ ctl' = Evaluating(ctl.term.value)
            /\ out' = out
            /\ stack' = stack]_vars
    /\ [][AtRet("Print") =>
            /\ status' = "running"
            /\ Len(out') = Len(out) + 1
            /\ SubSeq(out', 1, Len(out)) = out
            /\ LET v == ctl.val
                   text == out'[Len(out')]
               IN /\ v.t = "Str" => text = v.v
                  /\ v.t = "Bool" => text = (IF v.v THEN "true" ELSE "false")
                  /\ v.t = "Function" => text = "[function]"
                  /\ v.t = "Void" => text = "[void]"
                  /\ v = VInt(0) => text = "0"
                  /\ v = VInt(1) => text = "1"
                  /\ v = VInt(-1) => text = "-1"
                  /\ v = VInt(5) => text = "5"
                  /\ v = VInt(120) => text = "120"
            /\ ctl' = Returning(VVoid)
            /\ kont' = Rest
            /\ stack' = stack]_vars
    /\ [][~AtRet("Print") => out' = out]_vars
    /\ [](prog = TPrint(TBinary("Add", TInt(2), TInt(3))) /\ status # "running" =>
            status = "done" /\ out = <<"5">> /\ result = VVoid)
    /\ [](\A i \in Ints :
            prog = TPrint(TPrint(TInt(i))) /\ status # "running" =>
                status = "done" /\ Len(out) = 2 /\ out[2] = "[void]" /\ result = VVoid)
    /\ [](\A i \in Ints :
            prog = TLet("x", TPrint(TInt(i)), TPrint(TVar("x"))) /\ status # "running" =>
                /\ status = "done"
                /\ Len(out) = 2
                /\ out[2] = "[void]"
                /\ stack = <<Frame("None", <<>>, "x" :> VVoid)>>)

C14_Witness ==
    /\ prog = TPrint(TPrint(TInt(1)))
    /\ status = "done"
    /\ out = <<"1", "[void]">>
    /\ result = VVoid
    /\ Len(stack) = 1

\* C15: first((1, 2)) evaluates to Int 1 and second((1, 2)) to Int 2
\* (Tuple pairs the values of its two expressions, First and Second return
\* the component).
C15_TupleRoundTrip ==
    /\ (prog = TFirst(TTuple(TInt(1), TInt(2))) /\ status # "running" =>
          status = "done" /\ result = VInt(1))
    /\ (prog = TSecond(TTuple(TInt(1), TInt(2))) /\ status # "running" =>
          status = "done" /\ result = VInt(2))

\* C16: a failure ends the run at the failing step: that step writes
\* nothing and binds nothing, after it no term is evaluated, nothing is
\* written and nothing is bound, so the output of a failed run is what was
\* written before the failing step; an Error node fails whenever it is
\* evaluated.
C16_ErrorsAreFatal ==
    /\ [][status = "panicked" => FALSE]_vars
    /\ [][status' = "panicked" =>
            /\ status = "running"
            /\ err'.kind # "none"
            /\ out' = out
            /\ stack' = stack
            /\ ctl' = Halt
            /\ kont' = <<>>
            /\ result' = NoResult]_vars
    /\ [][AtEval("Error") =>
            /\ status' = "panicked"
            /\ err' = [kind |-> "ParseError", name |-> ctl.term.full_text]]_vars
    /\ [](prog \in ProgFailThenPrint =>
            /\ status # "done"
            /\ "after" \notin Range(out)
            /\ "b" \notin DOMAIN stack[1].var_scope
            /\ status = "panicked" => out = <<"before">> /\ err.kind # "none")
    /\ [](prog \in ProgNestedFail /\ Body(prog).value.value \in FailTerms =>
            /\ status # "done"
            /\ status = "panicked" => out = <<"arg">> /\ Binders(stack, "r") = {})

C16_Witness ==
    /\ prog \in ProgFailThenPrint
    /\ status = "panicked"
    /\ err = [kind |-> "ParseError", name |-> "bad"]
    /\ out = <<"before">>
    /\ DOMAIN stack[1].var_scope = {"one", "id", "a"}

\* C17: evaluating a Function term changes neither the call stack nor the
\* output, and the value holds the parameters and the body only: its free
\* variables are resolved on the stack live at each call, so calls of one
\* function from callers that bind x differently print the different
\* values, and a free variable bound only in the frame in which the
\* function was created, popped since, is unbound when it is called.
C17_FunctionCapturesNothing ==
    /\ [][AtEval("Function") =>
            /\ status' = "running"
            /\ DOMAIN ctl'.val = {"t", "parameters", "value"}
            /\ ctl'.val.t = "Function"
            /\ ctl'.val.parameters = ctl.term.parameters
            /\ ctl'.val.value = ctl.term.value
            /\ kont' = kont
            /\ stack' = stack
            /\ out' = out]_vars
    /\ [](prog \in ProgDynamic /\ status # "running" =>
            /\ status = "done"
            /\ out = <<Decimal(prog.next.next.value.value.value.value),
                       Decimal(prog.next.next.next.value.value.value.value),
                       "root">>)
    /\ [](prog \in ProgNoCapture /\ status # "running" =>
            IF prog.next.next.kind = "Call"
            THEN /\ status = "panicked"
                 /\ err = [kind |-> "UnboundVariable", name |-> "y"]
            ELSE /\ status = "done"
                 /\ result = VInt(prog.next.next.value.value))

C17_Witness ==
    /\ prog \in ProgDynamic
    /\ status = "done"
    /\ out = <<"1", "2", "root">>
    /\ Len(stack) = 1

\* The callee and the arguments of the call in the body of f in ProgCallee.
CalleeOf(p) == Body(p).value.value.callee
ArgsOf(p) == Body(p).value.value.arguments

\* C18: a Call runs only when its callee term is a variable whose stack
\* scan gives a Function value. A callee of any other shape (a function
\* literal, a nested call) fails as callee-not-var, a variable bound to a
\* non-function value fails as not-callable, and in both failures the call
\* stack is left exactly as it was: no frame pushed, none popped.
C18_CalleeMustBeFunctionVar ==
    /\ [][AtEval("Call") /\ ctl.term.callee.kind # "Var" =>
            /\ status' = "panicked"
            /\ err'.kind = "CalleeNotVar"
            /\ stack' = stack
            /\ out' = out]_vars
    /\ [][/\ AtEval("Call")
          /\ ctl.term.callee.kind = "Var"
          /\ \E i \in 1 .. Len(stack) :
                /\ ctl.term.callee.text \in DOMAIN stack[i].var_scope
                /\ \A j \in (i + 1) .. Len(stack) :
                      ctl.term.callee.text \notin DOMAIN stack[j].var_scope
                /\ stack[i].var_scope[ctl.term.callee.text].t # "Function"
          => /\ status' = "panicked"
             /\ err' = [kind |-> "NotCallable", name |-> ctl.term.callee.text]
             /\ stack' = stack
             /\ out' = out]_vars
    /\ [][Len(stack') > Len(stack) => AtEval("Call") \/ AtRet("CallArg")]_vars
    /\ [][AtEval("Call") /\ status' = "running" =>
            /\ ctl.term.callee.kind = "Var"
            /\ \E i \in 1 .. Len(stack) :
                  /\ ctl.term.callee.text \in DOMAIN stack[i].var_scope
                  /\ stack[i].var_scope[ctl.term.callee.text].t = "Function"]_vars
    /\ [](prog \in ProgCallee /\ status # "running" =>
            LET c == CalleeOf(prog)
                k == Len(ArgsOf(prog))
            IN  IF c.kind # "Var"
                THEN /\ status = "panicked"
                     /\ err.kind = "CalleeNotVar"
                     /\ Len(stack) = 2
                ELSE IF c.text = "one"
                THEN /\ status = "panicked"
                     /\ err = [kind |-> "NotCallable", name |-> "one"]
                     /\ Len(stack) = 2
                ELSE IF c.text = "nope"
                THEN /\ status = "panicked"
                     /\ err = [kind |-> "UnboundVariable", name |-> "nope"]
                ELSE k = 1 <=> status = "done")

C18_Witness ==
    /\ prog \in ProgCallee
    /\ CalleeOf(prog).kind = "Call"
    /\ Len(ArgsOf(prog)) = 1
    /\ status = "panicked"
    /\ err.kind = "CalleeNotVar"
    /\ Len(stack) = 2
    /\ out = <<>>

\* C19: a Call resolves its callee and checks the arity before it evaluates
\* any argument: when the call fails as callee-not-var, not-callable or
\* wrong arity, no argument has run, so nothing was printed and nothing was
\* bound by an argument; and the function found before the arguments run is
\* the one whose body runs, even when an argument rebinds the callee's name.
C19_CalleeAndArityBeforeArgs ==
    /\ [][AtEval("Call") /\ status' = "panicked" =>
            /\ err'.kind \in {"CalleeNotVar", "NotCallable", "ArityMismatch",
                              "UnboundVariable"}
            /\ out' = out
            /\ stack' = stack]_vars
    /\ [][AtEval("Call") /\ status' = "running" /\ ctl.term.arguments # <<>> =>
            /\ ctl' = Evaluating(ctl.term.arguments[1])
            /\ Len(kont') = Len(kont) + 1
            /\ kont'[Len(kont')].k = "CallArg"
            /\ kont'[Len(kont')].fn.t = "Function"
            /\ Len(kont'[Len(kont')].fn.parameters) = Len(ctl.term.arguments)
            /\ stack' = stack
            /\ out' = out]_vars
    /\ [][AtRet("CallArg") /\ status' = "running" =>
            IF Top.i < Len(Top.arguments)
            THEN /\ kont'[Len(kont')].k = "CallArg"
                 /\ kont'[Len(kont')].fn = Top.fn
            ELSE ctl' = Evaluating(Top.fn.value)]_vars
    /\ [](prog \in ProgCallee /\ status = "panicked" =>
            /\ out = <<>>
            /\ DOMAIN stack[1].var_scope = {"one", "id", "f"}
            /\ DOMAIN stack[2].var_scope = {})
    /\ [](prog \in ProgArity /\ status # "running" =>
            IF Len(prog.value.parameters) = Len(prog.next.arguments)
            THEN status = "done"
            ELSE /\ status = "panicked"
                 /\ err = [kind |-> "ArityMismatch", name |-> "f"]
                 /\ out = <<>>
                 /\ DOMAIN stack[1].var_scope = {"f"})
    /\ [](prog \in ProgRebind /\ status # "running" =>
            /\ status = "done"
            /\ out = <<"old", "new">>)

C19_Witness ==
    /\ prog \in ProgRebind
    /\ status = "done"
    /\ out = <<"old", "new">>
    /\ stack[1].var_scope["f"].value = TPrint(TStr("new"))

\* The parts of a program of ProgArgLet: whether it runs inside g, the
\* frame of the caller of f, the caller's x, the argument's t, the rest.
Wrapped(p) == p.name = "g"
CoreOf(p) == IF Wrapped(p) THEN p.value.value ELSE p
CallerFrame(p) == IF Wrapped(p) THEN 2 ELSE 1
CallerX(p) == CoreOf(p).value.value
ArgT(p) == CoreOf(p).next.next.value.arguments[1].value.value
RestOf(p) == CoreOf(p).next.next.next

\* C20: a Let executed inside an argument expression binds in the frame of
\* the caller, the frame on top while arguments are evaluated: the callee
\* body sees the binding through the stack scan, and the binding is still
\* in the caller's frame after the call returns. The parameters and the
\* names the callee body binds go with the popped frame, so a caller's x
\* shadowed by a parameter x is the caller's value again after the call.
C20_ArgLetBindsInCaller ==
    /\ [][AtRet("CallBody") /\ status' = "running" =>
            stack' = SubSeq(stack, 1, Len(stack) - 1)]_vars
    /\ [](prog \in ProgArgLet /\ status # "running" =>
            IF RestOf(prog).kind = "Var"
            THEN /\ status = "panicked"
                 /\ err = [kind |-> "UnboundVariable", name |-> RestOf(prog).text]
                 /\ out = <<Decimal(ArgT(prog)), "arg">>
            ELSE /\ status = "done"
                 /\ out = <<Decimal(ArgT(prog)), "arg",
                            Decimal(ArgT(prog)), Decimal(CallerX(prog))>>
                 /\ Len(stack) = 1)
    /\ [](prog \in ProgArgLet /\ ~Wrapped(prog) /\ status = "done" =>
            /\ DOMAIN stack[1].var_scope = {"x", "f", "t", "r", "u"}
            /\ stack[1].var_scope["x"] = VInt(CallerX(prog))
            /\ stack[1].var_scope["t"] = VInt(ArgT(prog)))
    /\ [](prog \in ProgArgLet =>
            LET c == CallerFrame(prog) IN
              /\ Wrapped(prog) => DOMAIN stack[1].var_scope \subseteq {"g"}
              /\ Len(stack) >= c =>
                    /\ {"z", "q"} \cap DOMAIN stack[c].var_scope = {}
                    /\ "x" \in DOMAIN stack[c].var_scope =>
                          stack[c].var_scope["x"] = VInt(CallerX(prog))
              /\ Len(stack) > c =>
                    /\ Len(stack) = c + 1
                    /\ stack[c].var_scope["t"] = VInt(ArgT(prog))
                    /\ stack[c + 1].var_scope["x"] = VStr("arg")
                    /\ DOMAIN stack[c + 1].var_scope \subseteq {"x", "z", "q"})

C20_Witness ==
    /\ prog \in ProgArgLet
    /\ Wrapped(prog)
    /\ AtEval("Print")
    /\ Len(stack) = 2
    /\ DOMAIN stack[2].var_scope = {"x", "f", "t", "r", "u"}
    /\ stack[2].var_scope["x"] = VInt(1)
    /\ stack[2].var_scope["t"] = VInt(2)
    /\ out = <<"2", "arg", "2">>

====
